---- MODULE Spec2Model ----
(***************************************************************************)
(* A model of enhanced_webdriver.EnhancedWebDriver: the wrapper's          *)
(* construction (create, _download_new_driver), its context-manager        *)
(* protocol and its element operations (_wait, is_element_present, write,  *)
(* click, ...).  The browser, the page and the host filesystem are the     *)
(* environment: every call into them has an outcome drawn from the         *)
(* outcomes that call can produce.                                         *)
(***************************************************************************)
EXTENDS Integers, Sequences, FiniteSets, TLC

VARIABLES fs, objs, heap, sessions, created, ctx, call

vars == <<fs, objs, heap, sessions, created, ctx, call>>

(***************************************************************************)
(* Bounds of the model.                                                    *)
(***************************************************************************)
\* how many Python objects (the caller's driver and the wrappers) are kept
MaxObjects == 3
\* how many browser sessions are ever started
MaxSessions == 2

(***************************************************************************)
(* The host filesystem.  A path is a directory, a stem and a suffix, so    *)
(* that Path.with_suffix, Path.parent and Path.joinpath are computed as    *)
(* pathlib computes them.                                                  *)
(***************************************************************************)
Dirs == {"pkg", "opt"}

FsPaths == [dir : Dirs, stem : {"driver", "custom", "chromedriver"},
            suffix : {"", ".exe", ".zip"}]

MkPath(d, st, su) == [dir |-> d, stem |-> st, suffix |-> su]

\* Path(__file__).parent / "driver.exe"
DefaultPath == MkPath("pkg", "driver", ".exe")

\* executable_path.with_suffix(".zip")
WithSuffix(p, su) == [p EXCEPT !.suffix = su]

\* executable_path.parent.joinpath("driver.exe")
JoinDriverExe(p) == MkPath(p.dir, "driver", ".exe")

Absent == [kind |-> "absent", content |-> "none", mode |-> 0]
File(c, m) == [kind |-> "file", content |-> c, mode |-> m]
\* a directory holding the extracted archive: chromedriver-<os>/chromedriver
\* (content "tree+bin") or the same tree once the binary was moved out ("tree");
\* mode is the mode of the binary inside
Dir(c, m) == [kind |-> "dir", content |-> c, mode |-> m]

\* modes zipfile.extractall gives the extracted binary (0o644, 0o600): the
\* archive's permission bits are not restored
ExtractModes == {420, 384}

RECURSIVE BitOr(_, _)
BitOr(a, b) ==
    IF a = 0 THEN b
    ELSE IF b = 0 THEN a
    ELSE 2 * BitOr(a \div 2, b \div 2) + (IF (a % 2) + (b % 2) > 0 THEN 1 ELSE 0)

\* 0o111
ExecBits == 73

\* next(executable_path.parent.glob("chromedrive*"))
GlobChromedrive(f, d) ==
    {p \in FsPaths : p.dir = d /\ p.stem = "chromedriver" /\ f[p].kind # "absent"}

\* zip_ref.extractall(executable_path)
ExtractAll(f, p, m) ==
    IF f[p].kind = "file"
    THEN [fs |-> f, exc |-> "FileExistsError"]
    ELSE [fs |-> [f EXCEPT ![p] = Dir("tree+bin", m)], exc |-> "none"]

\* shutil.move(next(next(executable_path.glob("*")).glob("c*")), executable_path.parent)
MoveBinaryToParent(f, p) ==
    LET dst == MkPath(p.dir, "chromedriver", "") IN
    IF f[p].kind # "dir" \/ f[p].content # "tree+bin"
    THEN [fs |-> f, exc |-> "StopIteration"]
    ELSE IF f[dst].kind # "absent"
    THEN [fs |-> f, exc |-> "shutil.Error"]
    ELSE [fs |-> [f EXCEPT ![dst] = File("chromedriver", f[p].mode),
                           ![p] = Dir("tree", f[p].mode)],
          exc |-> "none"]

\* shutil.rmtree(executable_path.parent.joinpath("driver.exe"))
RmtreeDriverExe(f, p) ==
    LET t == JoinDriverExe(p) IN
    IF f[t].kind = "absent" THEN [fs |-> f, exc |-> "FileNotFoundError"]
    ELSE IF f[t].kind = "file" THEN [fs |-> f, exc |-> "NotADirectoryError"]
    ELSE [fs |-> [f EXCEPT ![t] = Absent], exc |-> "none"]

\* os.remove(executable_path.with_suffix(".zip"))
RemoveZip(f, p) ==
    LET z == WithSuffix(p, ".zip") IN
    IF f[z].kind = "file" THEN [fs |-> [f EXCEPT ![z] = Absent], exc |-> "none"]
    ELSE [fs |-> f, exc |-> "FileNotFoundError"]

\* os.rename(next(executable_path.parent.glob("chromedrive*")), executable_path)
RenameToPath(f, p) ==
    LET found == GlobChromedrive(f, p.dir) IN
    IF found = {} THEN [fs |-> f, exc |-> "StopIteration"]
    ELSE LET src == CHOOSE q \in found : TRUE IN
         IF f[p].kind = "dir" THEN [fs |-> f, exc |-> "IsADirectoryError"]
         ELSE [fs |-> [f EXCEPT ![p] = f[src], ![src] = Absent], exc |-> "none"]

\* os.chmod(executable_path, os.stat(executable_path).st_mode | 0o111)
ChmodExec(f, p) ==
    IF f[p].kind = "absent" THEN [fs |-> f, exc |-> "FileNotFoundError"]
    ELSE [fs |-> [f EXCEPT ![p].mode = BitOr(f[p].mode, ExecBits)], exc |-> "none"]

\* one statement of _download_new_driver on filesystem f
Statement(name, f, p, m) ==
    CASE name = "urlretrieve" ->
             [fs |-> [f EXCEPT ![WithSuffix(p, ".zip")] = File("zip", 420)], exc |-> "none"]
      [] name = "extractall" -> ExtractAll(f, p, m)
      [] name = "move" -> MoveBinaryToParent(f, p)
      [] name = "rmtree" -> RmtreeDriverExe(f, p)
      [] name = "remove" -> RemoveZip(f, p)
      [] name = "rename" -> RenameToPath(f, p)
      [] name = "chmod" -> ChmodExec(f, p)

\* statements run in order; an exception ends the routine and leaves the
\* filesystem as the statements before it made it
RECURSIVE RunStatements(_, _, _, _)
RunStatements(names, x, p, m) ==
    IF names = <<>> \/ x.exc # "none" THEN x
    ELSE RunStatements(Tail(names), Statement(Head(names), x.fs, p, m), p, m)

\* the statements of _download_new_driver
DownloadStatements ==
    <<"urlretrieve", "extractall", "move", "rmtree", "remove", "rename", "chmod">>

DownloadOnPath(f, p, m) ==
    RunStatements(DownloadStatements, [fs |-> f, exc |-> "none"], p, m)

\* _download_new_driver(executable_path): create hands it the path as the
\* caller gave it, a Path or a str; a str has no with_suffix
DownloadNewDriver(f, ep, m) ==
    IF ep.type = "str" THEN [fs |-> f, exc |-> "AttributeError"]
    ELSE DownloadOnPath(f, ep.p, m)

(***************************************************************************)
(* Objects, attribute dictionaries and browser sessions.  objs[1] is the   *)
(* caller's own driver; every object names the dictionary (a cell of heap) *)
(* that holds its attributes, among them the session handle.               *)
(***************************************************************************)
AttrValues == {"a0", "a1"}
ConfiguredTimeouts == {0, 5}

NewSession(t) == [alive |-> TRUE, implicit_wait |-> t]

\* obj.<name>: an instance attribute is read from the object's __dict__
ReadAttr(h, o, i, name) == h[o[i].dict][name]

\* the browser session an object talks to
SessionOf(h, o, i) == h[o[i].dict].session_id

\* Service(executable_path=...); webdriver.Chrome(service=service): the binary
\* is started when it is an executable regular file
ChromeStart(f, p) ==
    IF f[p].kind = "file" /\ f[p].content = "chromedriver" /\ (f[p].mode \div 64) % 2 = 1
    THEN "none"
    ELSE "WebDriverException"

\* a wrapper that takes a copy, dict(web_driver.__dict__), instead
CopyDict(h, d) == [heap |-> Append(h, h[d]), dict |-> Len(h) + 1]

\* instance.__dict__ = web_driver.__dict__ : the instance gets the very
\* dictionary d of the driver, and no new one is allocated
AbsorbDict(h, d) == [heap |-> h, dict |-> d]

NonePath == [type |-> "None", p |-> DefaultPath]

\* if executable_path is None: executable_path = Path(__file__).parent / "driver.exe"
DefaultedPath(ep) == IF ep.type = "None" THEN [type |-> "Path", p |-> DefaultPath] ELSE ep

\* Path(executable_path).exists()
Exists(f, ep) == f[ep.p].kind # "absent"

\* what one call of create did
Rep(exc, downloaded, dlExc, existed, started, path) ==
    [exc |-> exc, downloaded |-> downloaded, dlExc |-> dlExc, existed |-> existed,
     started |-> started, path |-> path]

Downloaded(d) == [fs |-> d.fs, exc |-> d.exc, downloaded |-> TRUE]

\* if not Path(executable_path).exists(): cls._download_new_driver(executable_path)
Acquire(f, ep, m) ==
    IF Exists(f, ep) THEN [fs |-> f, exc |-> "none", downloaded |-> FALSE]
    ELSE Downloaded(DownloadNewDriver(f, ep, m))

\* instance.__dict__ = web_driver.__dict__; return instance
Absorb(f, o, h, ss, d, wd, rep) ==
    [fs |-> f,
     objs |-> Append(o, [kind |-> "wrapper", dict |-> AbsorbDict(h, d).dict, from |-> wd]),
     heap |-> AbsorbDict(h, d).heap,
     sessions |-> ss,
     report |-> rep]

\* create left by an exception
Failed(f, o, h, ss, rep) ==
    [fs |-> f, objs |-> o, heap |-> h, sessions |-> ss, report |-> rep]

\* the driver is started from the acquired binary a and absorbed
StartAndAbsorb(o, h, ss, ep, existed, a) ==
    IF a.exc # "none"
    THEN Failed(a.fs, o, h, ss, Rep(a.exc, a.downloaded, a.exc, existed, FALSE, ep.p))
    ELSE IF ChromeStart(a.fs, ep.p) # "none"
    THEN Failed(a.fs, o, h, ss,
                Rep(ChromeStart(a.fs, ep.p), a.downloaded, "none", existed, FALSE, ep.p))
    ELSE Absorb(a.fs, o, Append(h, [session_id |-> Len(ss) + 1, attr |-> "a0"]),
                Append(ss, NewSession(0)), Len(h) + 1, 0,
                Rep("none", a.downloaded, "none", existed, TRUE, ep.p))

\* create(None, executable_path)
CreateFresh(f, o, h, ss, ep, m) ==
    StartAndAbsorb(o, h, ss, ep, Exists(f, ep), Acquire(f, ep, m))

\* create(web_driver, executable_path): wd = 0 stands for web_driver = None
CreateHandler(f, o, h, ss, wd, ep, m) ==
    IF wd = 0 THEN CreateFresh(f, o, h, ss, DefaultedPath(ep), m)
    ELSE Absorb(f, o, h, ss, o[wd].dict, wd,
                Rep("none", FALSE, "none", Exists(f, DefaultedPath(ep)), FALSE,
                    DefaultedPath(ep).p))

\* WebDriver.quit() through object i: the session ends; a session that has
\* ended answers with an error
QuitHandler(h, o, ss, i) ==
    LET sid == SessionOf(h, o, i) IN
    IF ss[sid].alive
    THEN [sessions |-> [ss EXCEPT ![sid].alive = FALSE], exc |-> "none"]
    ELSE [sessions |-> ss, exc |-> "WebDriverException"]

\* __enter__(self): return self
EnterHandler(ss, self) == [ret |-> self, sessions |-> ss]

\* an __exit__ that ends with "return True"
ExitHandlerSwallowing(h, o, ss, self) ==
    LET q == QuitHandler(h, o, ss, self) IN
    [sessions |-> q.sessions, quits |-> 1, exc |-> q.exc, ret |-> "True"]

\* __exit__(self, exc_type, exc_val, exc_tb): self.quit(); the method returns
\* None, whatever quit did, unless quit raised
ExitHandler(h, o, ss, self) ==
    LET q == QuitHandler(h, o, ss, self) IN
    [sessions |-> q.sessions, quits |-> 1, exc |-> q.exc, ret |-> "None"]

\* the with statement: an exception of the block is suppressed exactly when
\* __exit__ returns a true value
Suppressed(ret) == ret = "True"

(***************************************************************************)
(* State and actions of the wrapper's life cycle.                          *)
(***************************************************************************)
NoCreate == [op |-> "none", wd |-> 0, ep |-> NonePath, exc |-> "none",
             downloaded |-> FALSE, existed |-> FALSE, started |-> FALSE,
             fsChanged |-> FALSE, path |-> DefaultPath, instance |-> 0,
             dlExc |-> "none", mode |-> 0]

CtxOut == [pc |-> "out", self |-> 0, entered |-> 0, before |-> <<>>, after |-> <<>>,
           bodyRaised |-> FALSE, quits |-> 0, propagated |-> "none"]

NoCall == [op |-> "none", wait |-> 0, exc |-> "none", ret |-> "none",
           trace |-> <<>>, hasSleep |-> FALSE, keys |-> [type |-> "none", val |-> ""]]

\* the driver binary may be installed already, at the default place or at the
\* caller's; nothing else is there
InstalledChoices == SUBSET {DefaultPath, MkPath("opt", "driver", ".exe")}

InitialFs(inst) == [p \in FsPaths |-> IF p \in inst THEN File("chromedriver", 493) ELSE Absent]

InitLife ==
    /\ \E inst \in InstalledChoices : fs = InitialFs(inst)
    /\ objs = <<[kind |-> "driver", dict |-> 1, from |-> 0]>>
    /\ heap = <<[session_id |-> 1, attr |-> "a0"]>>
    /\ \E t \in ConfiguredTimeouts : sessions = <<NewSession(t)>>
    /\ created = NoCreate
    /\ ctx = CtxOut
    /\ call = NoCall

\* the executable_path arguments callers pass
PathArgs ==
    {NonePath} \cup
    [type : {"Path", "str"},
     p : {DefaultPath, MkPath("pkg", "custom", ""), MkPath("opt", "driver", ".exe")}]

\* the record of a call of create that did rep
Created(wd, ep, m, rep, changed, n) ==
    [op |-> "create", wd |-> wd, ep |-> ep, exc |-> rep.exc,
     downloaded |-> rep.downloaded, existed |-> rep.existed, started |-> rep.started,
     fsChanged |-> changed, path |-> rep.path,
     instance |-> IF rep.exc = "none" THEN n ELSE 0,
     dlExc |-> rep.dlExc, mode |-> IF rep.downloaded THEN m ELSE 0]

Create(wd, ep, m) ==
    /\ Len(objs) < MaxObjects
    /\ wd = 0 => Len(sessions) < MaxSessions
    /\ LET r == CreateHandler(fs, objs, heap, sessions, wd, ep, m) IN
        /\ fs' = r.fs
        /\ objs' = r.objs
        /\ heap' = r.heap
        /\ sessions' = r.sessions
        /\ created' = Created(wd, ep, m, r.report, r.fs # fs, Len(r.objs))
    /\ UNCHANGED <<ctx, call>>

CreateAny ==
    \E wd \in 0..Len(objs), ep \in PathArgs, m \in ExtractModes : Create(wd, ep, m)

\* create(web_driver) on a driver or wrapper the caller holds
CreateWrap ==
    \E wd \in 1..Len(objs) : Create(wd, NonePath, 420)

\* the caller, or the driver's own methods, set an attribute through object i
SetAttr(i, v) ==
    /\ heap' = [heap EXCEPT ![objs[i].dict].attr = v]
    /\ UNCHANGED <<fs, objs, sessions, created, ctx, call>>

SetAttrAny == \E i \in 1..Len(objs), v \in AttrValues : SetAttr(i, v)

\* quit() called through object i
Quit(i) ==
    /\ sessions' = QuitHandler(heap, objs, sessions, i).sessions
    /\ call' = [NoCall EXCEPT !.op = "quit",
                                !.exc = QuitHandler(heap, objs, sessions, i).exc]
    /\ UNCHANGED <<fs, objs, heap, created, ctx>>

QuitAny == \E i \in 1..Len(objs) : Quit(i)

\* with wrapper as w: the block is entered through __enter__
Enter(i) ==
    /\ ctx.pc = "out"
    /\ objs[i].kind = "wrapper"
    /\ LET e == EnterHandler(sessions, i) IN
        /\ sessions' = e.sessions
        /\ ctx' = [pc |-> "in", self |-> i, entered |-> e.ret,
                    before |-> sessions, after |-> e.sessions,
                    bodyRaised |-> FALSE, quits |-> 0, propagated |-> "none"]
    /\ UNCHANGED <<fs, objs, heap, created, call>>

EnterAny == \E i \in 1..Len(objs) : Enter(i)

\* the block ends, normally or by an exception, and __exit__ runs
WithExit(raised) ==
    /\ ctx.pc = "in"
    /\ LET x == ExitHandler(heap, objs, sessions, ctx.self) IN
        /\ sessions' = x.sessions
        /\ ctx' = [ctx EXCEPT !.pc = "out", !.bodyRaised = raised, !.quits = x.quits,
                               !.propagated = IF x.exc # "none" THEN x.exc
                                              ELSE IF raised /\ ~Suppressed(x.ret)
                                                   THEN "BlockError" ELSE "none"]
    /\ UNCHANGED <<fs, objs, heap, created, call>>

WithExitAny == \E raised \in BOOLEAN : WithExit(raised)


(***************************************************************************)
(* Element operations.  Every call into the browser is an event with its   *)
(* outcome: "ok" or the exception it raised.  A handler's statements run   *)
(* in order and the first exception ends the block they are in.            *)
(***************************************************************************)
\* selenium.common.exceptions; all of them are WebDriverException subclasses
SeleniumExceptions ==
    {"NoSuchElementException", "TimeoutException", "StaleElementReferenceException",
     "ElementClickInterceptedException", "WebDriverException"}

IsWebDriverException(e) == e \in SeleniumExceptions

\* default of seconds in _wait
DefaultSeconds == 1

\* the waits callers pass (the defaults of the methods are 1 and 10)
SecondsArgs == {DefaultSeconds, 10}

\* find_element under an implicit wait: the element, or NoSuchElementException
FindOut == {"ok", "NoSuchElementException"}
\* WebDriverWait(...).until(element_to_be_clickable(element))
UntilOut == {"ok", "TimeoutException", "StaleElementReferenceException"}
\* WebElement.click()
ClickOut == {"ok", "ElementClickInterceptedException", "StaleElementReferenceException"}
\* any other use of a located element (text, clear, send_keys, a script, ...)
ActOut == {"ok", "StaleElementReferenceException", "WebDriverException"}
\* the caller's sleep_function: it returns, or raises
SleepOut == {"ok"} \cup SeleniumExceptions

\* the keys callers pass to write
Keys == {[type |-> "str", val |-> "ab"], [type |-> "int", val |-> 42]}

\* str(keys)
Str(k) == IF k.type = "int" THEN ToString(k.val) ELSE k.val

Ev(e, o) == [ev |-> e, out |-> o, arg |-> ""]
EvArg(e, o, a) == [ev |-> e, out |-> o, arg |-> a]

Count(t, e) == Cardinality({k \in DOMAIN t : t[k].ev = e})
CountOk(t, e) == Cardinality({k \in DOMAIN t : t[k].ev = e /\ t[k].out = "ok"})
\* position of the n-th event e of t, 0 when there is none
Nth(t, e, n) ==
    LET ks == {k \in DOMAIN t : t[k].ev = e /\ Cardinality({j \in 1..k : t[j].ev = e}) = n}
    IN  IF ks = {} THEN 0 ELSE CHOOSE k \in ks : TRUE

FirstFail(steps) ==
    LET bad == {k \in DOMAIN steps : steps[k].out # "ok"}
    IN  IF bad = {} THEN 0 ELSE CHOOSE k \in bad : \A j \in bad : k <= j

\* statements run in order until one raises
RunSteps(steps) ==
    LET k == FirstFail(steps)
    IN  IF k = 0 THEN [exc |-> "none", trace |-> steps]
        ELSE [exc |-> steps[k].out, trace |-> SubSeq(steps, 1, k)]

\* self.implicitly_wait(seconds): the session's implicit-wait timeout is set
ImplicitlyWait(s, seconds) == [s EXCEPT !.implicit_wait = seconds]

\* a _wait that puts the previous timeout back once the element is looked up
WaitRestoringTimeout(s, seconds, findOut) ==
    IF ~s.alive
    THEN [sess |-> s, exc |-> "WebDriverException",
          trace |-> <<Ev("implicitly_wait", "WebDriverException")>>]
    ELSE LET r == RunSteps(<<Ev("implicitly_wait", "ok"), Ev("find_element", findOut),
                             Ev("sleep(0.5)", "ok")>>)
         IN  [sess |-> s, exc |-> r.exc, trace |-> r.trace]

\* _wait(value, seconds, by): implicitly_wait, find_element, sleep(0.5); a
\* session that has ended answers the first command with an error
Wait(s, seconds, findOut) ==
    IF ~s.alive
    THEN [sess |-> s, exc |-> "WebDriverException",
          trace |-> <<Ev("implicitly_wait", "WebDriverException")>>]
    ELSE LET r == RunSteps(<<Ev("implicitly_wait", "ok"), Ev("find_element", findOut),
                             Ev("sleep(0.5)", "ok")>>)
         IN  [sess |-> ImplicitlyWait(s, seconds), exc |-> r.exc, trace |-> r.trace]

\* a block continued after _wait by the statements steps
WaitThen(w, steps) ==
    IF w.exc # "none" THEN w
    ELSE LET r == RunSteps(steps)
         IN  [sess |-> w.sess, exc |-> r.exc, trace |-> w.trace \o r.trace]

Returned(b, v) == [sess |-> b.sess, ret |-> v, exc |-> "none", trace |-> b.trace]
Raised(b) == [sess |-> b.sess, ret |-> "none", exc |-> b.exc, trace |-> b.trace]

\* return self._wait(value, seconds, by).<use>: nothing is caught
LookupAndUse(s, seconds, o, use, v) ==
    LET b == WaitThen(Wait(s, seconds, o.find), <<Ev(use, o.act)>>)
    IN  IF b.exc = "none" THEN Returned(b, v) ELSE Raised(b)

get_text_of_element(s, seconds, o) == LookupAndUse(s, seconds, o, "text", "value")

is_element_selected(s, seconds, o) == LookupAndUse(s, seconds, o, "is_selected", "value")

get_attribute(s, seconds, o) == LookupAndUse(s, seconds, o, "get_attribute", "value")

wait_and_click_js(s, time, o) == LookupAndUse(s, time, o, "execute_script", "None")

get_canvas(s, o) == LookupAndUse(s, DefaultSeconds, o, "screenshot_as_png", "value")

click_on_canvas(s, right_click, o) ==
    LookupAndUse(s, DefaultSeconds, o,
                 IF right_click THEN "context_click" ELSE "canvas_click", "None")

\* an is_element_present whose except clause names TimeoutException
IsElementPresentCatchingTimeout(s, seconds, o) ==
    LET b == Wait(s, seconds, o.find)
    IN  IF b.exc = "none" THEN Returned(b, "True")
        ELSE IF b.exc = "TimeoutException" THEN Returned(b, "False")
        ELSE Raised(b)

is_element_present(s, seconds, o) ==
    LET b == Wait(s, seconds, o.find)
    IN  IF b.exc = "none" THEN Returned(b, "True")
        ELSE IF b.exc = "NoSuchElementException" THEN Returned(b, "False")
        ELSE Raised(b)

\* a write that catches only NoSuchElementException
WriteCatchingNotFound(s, keys, hasSleep, time, o) ==
    LET b == WaitThen(Wait(s, time, o.find),
                      <<Ev("clear", o.clear), EvArg("send_keys", o.send, Str(keys))>>
                      \o (IF hasSleep THEN <<Ev("sleep_function", o.sleep)>> ELSE <<>>))
    IN  IF b.exc = "none" THEN Returned(b, "True")
        ELSE IF b.exc = "NoSuchElementException" THEN Returned(b, "False")
        ELSE Raised(b)

write(s, keys, hasSleep, time, o) ==
    LET b == WaitThen(Wait(s, time, o.find),
                      <<Ev("clear", o.clear), EvArg("send_keys", o.send, Str(keys))>>
                      \o (IF hasSleep THEN <<Ev("sleep_function", o.sleep)>> ELSE <<>>))
    IN  IF b.exc = "none" THEN Returned(b, "True")
        ELSE IF IsWebDriverException(b.exc) THEN Returned(b, "False")
        ELSE Raised(b)

\* the handler of ElementClickInterceptedException: sleep(0.01), a fresh _wait,
\* the clickability wait and the click; it is outside the try block, so what
\* it raises is not caught
ClickRetry(b, seconds, o) ==
    LET w == Wait(b.sess, seconds, o.find2)
        r == WaitThen([w EXCEPT !.trace = b.trace \o <<Ev("sleep(0.01)", "ok")>> \o w.trace],
                      <<Ev("until", o.until2), Ev("click", o.click2)>>)
    IN  IF r.exc = "none" THEN Returned(r, "True") ELSE Raised(r)

\* a click whose retry clause also names TimeoutException
ClickRetryingOnTimeout(s, hasSleep, seconds, o) ==
    LET b == WaitThen(Wait(s, seconds, o.find1),
                      <<Ev("until", o.until1), Ev("click", o.click1)>>
                      \o (IF hasSleep THEN <<Ev("sleep_function", o.sleep)>> ELSE <<>>))
    IN  IF b.exc = "none" THEN Returned(b, "True")
        ELSE IF b.exc \in {"ElementClickInterceptedException", "TimeoutException"}
             THEN ClickRetry(b, seconds, o)
        ELSE IF b.exc \in {"NoSuchElementException", "StaleElementReferenceException"}
             THEN Returned(b, "False")
        ELSE Raised(b)

click(s, hasSleep, seconds, o) ==
    LET b == WaitThen(Wait(s, seconds, o.find1),
                      <<Ev("until", o.until1), Ev("click", o.click1)>>
                      \o (IF hasSleep THEN <<Ev("sleep_function", o.sleep)>> ELSE <<>>))
    IN  IF b.exc = "none" THEN Returned(b, "True")
        ELSE IF b.exc = "ElementClickInterceptedException" THEN ClickRetry(b, seconds, o)
        ELSE IF b.exc \in {"NoSuchElementException", "TimeoutException",
                           "StaleElementReferenceException"}
             THEN Returned(b, "False")
        ELSE Raised(b)

(***************************************************************************)
(* The outcomes drawn for a call.  Statements run in order and the first   *)
(* exception ends the block, so a block's outcomes are fixed by its first  *)
(* failing call, if any, and the exception that call raises; every other   *)
(* call of the block that is made succeeds.                                *)
(***************************************************************************)
NoKeys == [type |-> "none", val |-> ""]

NoFail == [ev |-> "none", out |-> "ok"]

Fails(ev, outs) == {[ev |-> ev, out |-> x] : x \in outs \ {"ok"}}

Out(f, ev) == IF f.ev = ev THEN f.out ELSE "ok"

\* _wait followed by one use of the element
UseOracles ==
    {[find |-> Out(f, "find_element"), act |-> Out(f, "use")] :
        f \in {NoFail} \cup Fails("find_element", FindOut) \cup Fails("use", ActOut)}

\* the try block of write
WriteOracles ==
    {[find |-> Out(f, "find_element"), clear |-> Out(f, "clear"),
      send |-> Out(f, "send_keys"), sleep |-> Out(f, "sleep_function")] :
        f \in {NoFail} \cup Fails("find_element", FindOut) \cup Fails("clear", ActOut)
              \cup Fails("send_keys", ActOut) \cup Fails("sleep_function", SleepOut)}

\* the try block of click, and the retry in its handler
ClickOracles ==
    {[find1 |-> Out(f, "find_element"), until1 |-> Out(f, "until"),
      click1 |-> Out(f, "click"), sleep |-> Out(f, "sleep_function"),
      find2 |-> Out(g, "find_element"), until2 |-> Out(g, "until"),
      click2 |-> Out(g, "click")] :
        f \in {NoFail} \cup Fails("find_element", FindOut) \cup Fails("until", UntilOut)
              \cup Fails("click", ClickOut) \cup Fails("sleep_function", SleepOut),
        g \in {NoFail} \cup Fails("find_element", FindOut) \cup Fails("until", UntilOut)
              \cup Fails("click", ClickOut)}

\* the state after create(web_driver) on the caller's driver
Init ==
    \E t \in ConfiguredTimeouts :
      LET r == CreateHandler(InitialFs({}), <<[kind |-> "driver", dict |-> 1, from |-> 0]>>,
                             <<[session_id |-> 1, attr |-> "a0"]>>, <<NewSession(t)>>,
                             1, NonePath, 420)
      IN  /\ fs = r.fs
          /\ objs = r.objs
          /\ heap = r.heap
          /\ sessions = r.sessions
          /\ created = Created(1, NonePath, 420, r.report, FALSE, Len(r.objs))
          /\ ctx = CtxOut
          /\ call = NoCall

Wrappers == {i \in 1..Len(objs) : objs[i].kind = "wrapper"}

\* a call through wrapper i that ended as r
Called(i, name, wait, hasSleep, keys, r) ==
    /\ sessions' = [sessions EXCEPT ![SessionOf(heap, objs, i)] = r.sess]
    /\ call' = [op |-> name, wait |-> wait, exc |-> r.exc, ret |-> r.ret,
                trace |-> r.trace, hasSleep |-> hasSleep, keys |-> keys]
    /\ UNCHANGED <<fs, objs, heap, created, ctx>>

Sess(i) == sessions[SessionOf(heap, objs, i)]

GetTextOfElement ==
    \E i \in Wrappers, secs \in SecondsArgs, o \in UseOracles :
        Called(i, "get_text_of_element", secs, FALSE, NoKeys,
               get_text_of_element(Sess(i), secs, o))

IsElementPresent ==
    \E i \in Wrappers, secs \in SecondsArgs, o \in UseOracles :
        /\ o.act = "ok"
        /\ Called(i, "is_element_present", secs, FALSE, NoKeys,
                  is_element_present(Sess(i), secs, o))

IsElementSelected ==
    \E i \in Wrappers, secs \in SecondsArgs, o \in UseOracles :
        Called(i, "is_element_selected", secs, FALSE, NoKeys,
               is_element_selected(Sess(i), secs, o))

GetAttribute ==
    \E i \in Wrappers, secs \in SecondsArgs, o \in UseOracles :
        Called(i, "get_attribute", secs, FALSE, NoKeys, get_attribute(Sess(i), secs, o))

Write ==
    \E i \in Wrappers, secs \in SecondsArgs, k \in Keys, hasSleep \in BOOLEAN :
        \E o \in WriteOracles :
            Called(i, "write", secs, hasSleep, k, write(Sess(i), k, hasSleep, secs, o))

Click ==
    \E i \in Wrappers, secs \in SecondsArgs, hasSleep \in BOOLEAN :
        \E o \in ClickOracles :
            Called(i, "click", secs, hasSleep, NoKeys, click(Sess(i), hasSleep, secs, o))

WaitAndClickJs ==
    \E i \in Wrappers, secs \in SecondsArgs, o \in UseOracles :
        Called(i, "wait_and_click_js", secs, FALSE, NoKeys,
               wait_and_click_js(Sess(i), secs, o))

GetCanvas ==
    \E i \in Wrappers, o \in UseOracles :
        Called(i, "get_canvas", DefaultSeconds, FALSE, NoKeys, get_canvas(Sess(i), o))

ClickOnCanvas ==
    \E i \in Wrappers, o \in UseOracles, right_click \in BOOLEAN :
        Called(i, "click_on_canvas", DefaultSeconds, FALSE, NoKeys,
               click_on_canvas(Sess(i), right_click, o))

Next ==
    \/ GetTextOfElement
    \/ IsElementPresent
    \/ IsElementSelected
    \/ GetAttribute
    \/ Write
    \/ Click
    \/ WaitAndClickJs
    \/ GetCanvas
    \/ ClickOnCanvas
    \/ QuitAny

Spec == Init /\ [][Next]_vars

\* calls of create alone, on every path and with or without a driver
NextCreate == CreateAny

SpecCreate == InitLife /\ [][NextCreate]_vars

\* a driver, the wrappers made of it, and what callers do through either
NextShare ==
    \/ CreateWrap
    \/ SetAttrAny
    \/ QuitAny
    \/ EnterAny
    \/ WithExitAny
    \/ IsElementPresent

SpecShare == InitLife /\ [][NextShare]_vars

(***************************************************************************)
(* Properties.                                                             *)
(***************************************************************************)
T == call.trace

HasOut(t, e, x) == \E k \in DOMAIN t : t[k].ev = e /\ t[k].out = x

KnownClickExceptions ==
    {"NoSuchElementException", "TimeoutException", "StaleElementReferenceException",
     "ElementClickInterceptedException"}

LookupOps ==
    {"get_text_of_element", "is_element_present", "is_element_selected", "get_attribute",
     "write", "click", "wait_and_click_js", "get_canvas", "click_on_canvas"}

\* the events of the try block of click: those before the handler's sleep(0.01)
FirstAttempt ==
    IF Nth(T, "sleep(0.01)", 1) = 0 THEN T ELSE SubSeq(T, 1, Nth(T, "sleep(0.01)", 1) - 1)

LastOut(t) == IF t = <<>> THEN "ok" ELSE t[Len(t)].out

\* C1: whatever the lookup, the clickability wait and the click do (succeed,
\* not found, time out, go stale, be intercepted), and with a sleep_function
\* that returns, click ends by returning a boolean, True exactly when a click
\* was performed, and none of the four known exceptions reaches the caller,
\* the retry after an interception included.
C1_ClickAlwaysReturnsBoolean ==
    (/\ call.op = "click"
     /\ \A k \in DOMAIN T : T[k].out \in {"ok"} \cup KnownClickExceptions
     /\ ~\E k \in DOMAIN T : T[k].ev = "sleep_function" /\ T[k].out # "ok")
    => /\ call.exc = "none"
       /\ call.ret \in {"True", "False"}
       /\ call.ret = "True" <=> CountOk(T, "click") > 0

C3_PresentIffLocated ==
    call.op = "is_element_present" =>
        /\ HasOut(T, "find_element", "ok") => call.ret = "True" /\ call.exc = "none"
        /\ HasOut(T, "find_element", "NoSuchElementException")
              => call.ret = "False" /\ call.exc = "none"
        /\ call.ret = "True" => HasOut(T, "find_element", "ok")
        /\ call.exc = "none" => call.ret \in {"True", "False"}

\* a lookup that failed and was answered with False
C3_Witness ==
    /\ call.op = "is_element_present"
    /\ HasOut(T, "find_element", "NoSuchElementException")
    /\ call.ret = "False"

\* the statements of write's try block, in order
WriteSteps ==
    <<"implicitly_wait", "find_element", "sleep(0.5)", "clear", "send_keys">>
    \o (IF call.hasSleep THEN <<"sleep_function">> ELSE <<>>)

\* C4: write returns True exactly when the element was located, cleared and
\* sent str(keys), in that order, and the sleep_function, if given, ran without
\* a WebDriverException; when a step raises a WebDriverException the call
\* returns False, no later step runs, and nothing reaches the caller.
C4_WriteAllOrFalse ==
    call.op = "write" =>
        /\ call.exc = "none"
        /\ Len(T) <= Len(WriteSteps)
        /\ \A k \in DOMAIN T : T[k].ev = WriteSteps[k]
        /\ \A k \in DOMAIN T : k < Len(T) => T[k].out = "ok"
        /\ call.ret = "True" <=> (Len(T) = Len(WriteSteps) /\ LastOut(T) = "ok")
        /\ call.ret = "False" <=> LastOut(T) # "ok"
        /\ \A k \in DOMAIN T : T[k].ev = "send_keys" =>
              /\ T[k - 1].ev = "clear" /\ T[k - 1].out = "ok"
              /\ T[k].arg = (IF call.keys.type = "int" THEN "42" ELSE "ab")

\* a number typed into a field, followed by the sleep_function
C4_Witness ==
    /\ call.op = "write"
    /\ call.ret = "True"
    /\ call.hasSleep
    /\ call.keys.type = "int"
    /\ HasOut(T, "sleep_function", "ok")

\* C5: a wrapper made by create(web_driver) and that driver share one
\* attribute dictionary: whatever is done through either, every attribute read
\* through the wrapper is the attribute read through the driver, the session
\* handle among them, and a quit through one is seen by the other.
C5_WrapperSharesState ==
    \A i \in 1..Len(objs) :
        objs[i].from # 0 =>
            /\ objs[i].dict = objs[objs[i].from].dict
            /\ \A name \in {"session_id", "attr"} :
                  ReadAttr(heap, objs, i, name) = ReadAttr(heap, objs, objs[i].from, name)
            /\ sessions[SessionOf(heap, objs, i)].alive
                  = sessions[SessionOf(heap, objs, objs[i].from)].alive

\* a wrapper of the caller's driver, after an attribute was set and the
\* session was quit
C5_Witness ==
    \E i \in 1..Len(objs) :
        /\ objs[i].from = 1
        /\ ReadAttr(heap, objs, i, "attr") = "a1"
        /\ ~sessions[SessionOf(heap, objs, 1)].alive

\* C6: __enter__ returns the instance it was called on and leaves the session
\* as it was; when the block ends, normally or by an exception, __exit__ has
\* called quit once, the session has ended, and an exception of the block is
\* not suppressed.
C6_ContextManagerQuits ==
    /\ ctx.pc = "in" => ctx.entered = ctx.self /\ ctx.after = ctx.before
    /\ (ctx.pc = "out" /\ ctx.self # 0) =>
          /\ ctx.entered = ctx.self
          /\ ctx.quits = 1
          /\ ~sessions[SessionOf(heap, objs, ctx.self)].alive
          /\ ctx.bodyRaised => ctx.propagated # "none"

\* a block that raised: the session has ended and the exception goes on
C6_Witness ==
    /\ ctx.pc = "out"
    /\ ctx.self # 0
    /\ ctx.bodyRaised
    /\ ctx.propagated = "BlockError"
    /\ ~sessions[SessionOf(heap, objs, ctx.self)].alive

\* C7: with a sleep_function that returns, a click that returns True has
\* called sleep_function exactly once, after the successful click, also when
\* the click succeeded on the retry; a click that returns False has not
\* called it.
C7_SleepAfterEveryClick ==
    (/\ call.op = "click"
     /\ call.hasSleep
     /\ call.exc = "none"
     /\ ~\E k \in DOMAIN T : T[k].ev = "sleep_function" /\ T[k].out # "ok")
    => /\ call.ret = "True" =>
            /\ Count(T, "sleep_function") = 1
            /\ \A k \in DOMAIN T :
                  (T[k].ev = "click" /\ T[k].out = "ok") => k < Nth(T, "sleep_function", 1)
       /\ call.ret = "False" => Count(T, "sleep_function") = 0

\* C8: _download_new_driver(executable_path), run where executable_path does
\* not exist, ends without error with the chromedriver binary at
\* executable_path, a regular file whose mode is the extracted mode with the
\* execute bits added, and with the archive gone and no directory left at
\* executable_path; for the default path and for a caller's path alike.
C8_DriverStoredAtPath ==
    (created.op = "create" /\ created.downloaded /\ created.ep.type # "str") =>
        /\ created.dlExc = "none"
        /\ fs[created.path] = File("chromedriver", BitOr(created.mode, ExecBits))
        /\ fs[WithSuffix(created.path, ".zip")] = Absent

\* C9: create downloads exactly when no web_driver is given and the path does
\* not exist; with a web_driver it touches no file and starts no session;
\* with none and an existing path the filesystem stays as it is and the
\* browser is started; a session is started exactly when web_driver is None.
C9_DownloadAndStartExactlyWhenNeeded ==
    created.op = "create" =>
        /\ created.downloaded <=> (created.wd = 0 /\ ~created.existed)
        /\ created.wd # 0 =>
              ~created.fsChanged /\ ~created.downloaded /\ ~created.started
        /\ (created.wd = 0 /\ created.existed) => ~created.fsChanged /\ created.started
        /\ created.started <=> created.wd = 0

\* C10: after a lookup operation, failed or not, the session's implicit-wait
\* timeout is the wait of that operation, set once per lookup (twice in a
\* click that retries); what the caller had configured is not put back.
C10_TimeoutIsLastWait ==
    call.op \in LookupOps =>
        \A i \in Wrappers :
            Sess(i).alive =>
                /\ Sess(i).implicit_wait = call.wait
                /\ Count(T, "implicitly_wait") = 1 + Count(T, "sleep(0.01)")
                /\ Count(T, "implicitly_wait") = Count(T, "find_element")

\* a failed lookup that left its own wait in place of the configured timeout
C10_Witness ==
    /\ call.op = "get_canvas"
    /\ call.exc = "NoSuchElementException"
    /\ \E i \in Wrappers :
          /\ Sess(i).alive
          /\ Sess(i).implicit_wait = DefaultSeconds
          /\ Sess(i).implicit_wait \notin ConfiguredTimeouts

====
